---- MODULE Spec2Model ----
(***************************************************************************)
(* Model of the template/upload backend in src/main.py: the HTTP handlers  *)
(* create_template, list_templates, get_template, delete_template and      *)
(* upload_image over a document store holding the "template" and "upload"  *)
(* collections.                                                            *)
(*                                                                         *)
(* Strings that the code converts (identifiers, base64 text) are sequences *)
(* of one-character strings.  An Optional value is None (the empty         *)
(* sequence) or Some(v) (a one-element sequence).  A datetime is a natural *)
(* number; datetime.min is 0 and the server clock starts above it.         *)
(***************************************************************************)
EXTENDS Integers, Sequences, FiniteSets, TLC

VARIABLES
    store,      \* the "template" collection, in the store's natural order
    uploads,    \* the "upload" collection
    nextOid,    \* the next identifier the store generates
    clock,      \* the value datetime.utcnow() returns now
    pc,         \* per worker thread: where its create_template call stands
    req,        \* per worker thread: the Template the request carried
    payload,    \* per worker thread: the local variable payload
    last,       \* the request that completed last, with its response
    created,    \* history: id returned by a successful create -> its Template
    deleted     \* history: identifiers removed by a delete

vars == <<store, uploads, nextOid, clock, pc, req, payload, last, created, deleted>>

----------------------------------------------------------------------------
(* Bounds of the model. *)

\* hexadecimal digits of an identifier's string form (24 in bson), scaled down
HexLen == 2
\* documents the template collection ever holds
MaxDocs == 2
\* records in the upload collection
MaxUploads == 1
\* bytes in an uploaded file
MaxBytes == 3

\* worker threads of the server's thread pool running create_template
Workers == {1, 2}

\* readings of the server clock: an earlier and a later instant
Instants == {1, 2}

----------------------------------------------------------------------------
(* Values. *)

None == <<>>
Some(v) == <<v>>

DatetimeMin == 0

EmptyDict == [k \in {} |-> 0]

HexLower == <<"0","1","2","3","4","5","6","7","8","9","a","b","c","d","e","f">>
HexUpper == <<"0","1","2","3","4","5","6","7","8","9","A","B","C","D","E","F">>

IsHexChar(c) == \E i \in 1..16 : HexLower[i] = c \/ HexUpper[i] = c
HexVal(c) == CHOOSE v \in 0..15 : HexLower[v + 1] = c \/ HexUpper[v + 1] = c

RECURSIVE ToHex(_, _)
ToHex(n, w) ==
    IF w = 0 THEN <<>>
    ELSE Append(ToHex(n \div 16, w - 1), HexLower[(n % 16) + 1])

RECURSIVE FromHex(_)
FromHex(s) ==
    IF s = <<>> THEN 0
    ELSE FromHex(SubSeq(s, 1, Len(s) - 1)) * 16 + HexVal(s[Len(s)])

\* str(ObjectId): the lower-case hexadecimal form
Str(oid) == ToHex(oid, HexLen)

\* ObjectId(s) raises InvalidId unless s is HexLen hexadecimal digits
ValidObjectId(s) == Len(s) = HexLen /\ \A i \in 1..Len(s) : IsHexChar(s[i])
ObjectId(s) == FromHex(s)


\* the same digits in upper case, which ObjectId() also accepts
Upper(s) == [i \in 1..Len(s) |-> HexUpper[HexVal(s[i]) + 1]]

\* dict.get(k): None when the key is missing
DictGet(d, k) == IF k \in DOMAIN d THEN d[k] ELSE None

----------------------------------------------------------------------------
(* The Template model and the document store. *)

\* Template(**body): name is required, the other fields have defaults
Template(body) ==
    [name       |-> body.name,
     thumbnail  |-> DictGet(body, "thumbnail"),
     data       |-> IF "data" \in DOMAIN body THEN body.data ELSE EmptyDict,
     created_at |-> DictGet(body, "created_at"),
     updated_at |-> DictGet(body, "updated_at")]

\* payload = template.model_dump(); payload["created_at"] = datetime.utcnow()
StampCreated(t, now) == [t EXCEPT !.created_at = Some(now)]

\* payload["updated_at"] = datetime.utcnow()
StampUpdated(p, now) == [p EXCEPT !.updated_at = Some(now)]

\* the first identifier the store generates
FirstOid == 10

\* the document the store keeps for an inserted payload
WithId(p, oid) == [k \in DOMAIN p \cup {"_id"} |-> IF k = "_id" THEN oid ELSE p[k]]

\* create_document(collection, payload): insert_one, the new document last
create_document(coll, p, oid) == Append(coll, WithId(p, oid))

\* get_documents(collection, {}, limit=None): every document, in natural order
get_documents(coll) == coll

Matches(coll, oid) == {i \in 1..Len(coll) : coll[i]._id = oid}
First(S) == CHOOSE i \in S : \A j \in S : i <= j

\* find_one without its filter: the first document, whatever its identifier
find_one_unfiltered(coll, oid) == IF coll = <<>> THEN None ELSE Some(coll[1])

\* collection.find_one({"_id": oid})
find_one(coll, oid) ==
    IF Matches(coll, oid) = {} THEN None ELSE Some(coll[First(Matches(coll, oid))])

\* delete_one without its filter: the first document goes, whatever its identifier
delete_one_unfiltered(coll, oid) == IF coll = <<>> THEN coll ELSE Tail(coll)

\* collection.delete_one({"_id": oid}): the collection afterwards
delete_one(coll, oid) ==
    IF Matches(coll, oid) = {} THEN coll
    ELSE LET i == First(Matches(coll, oid))
         IN  SubSeq(coll, 1, i - 1) \o SubSeq(coll, i + 1, Len(coll))

\* res.deleted_count of that delete_one
deleted_count(coll, oid) == IF Matches(coll, oid) = {} THEN 0 ELSE 1

\* the public form without the pop of "_id"
PublicKeepsInternalId(d) ==
    [k \in DOMAIN d \cup {"id"} |-> IF k = "id" THEN Str(d._id) ELSE d[k]]

\* d["id"] = str(d.get("_id")); d.pop("_id", None)
Public(d) ==
    [k \in (DOMAIN d \ {"_id"}) \cup {"id"} |-> IF k = "id" THEN Str(d._id) ELSE d[k]]

\* key=lambda x: x.get("updated_at") or datetime.min
SortKey(x) ==
    LET u == DictGet(x, "updated_at") IN IF u = None THEN DatetimeMin ELSE u[1]

\* one step of the stable descending sort: x goes after every element whose
\* key is at least its own
RECURSIVE InsertDesc(_, _)
InsertDesc(sorted, x) ==
    IF sorted = <<>> THEN <<x>>
    ELSE IF SortKey(Head(sorted)) >= SortKey(x)
         THEN <<Head(sorted)>> \o InsertDesc(Tail(sorted), x)
         ELSE <<x>> \o sorted

\* the sort without reverse=True: stable and ascending
RECURSIVE SortAscending(_)
SortAscending(s) ==
    IF s = <<>> THEN <<>>
    ELSE LET rest == SortAscending(SubSeq(s, 1, Len(s) - 1))
             x == s[Len(s)]
             before == SelectSeq(rest, LAMBDA y : SortKey(y) <= SortKey(x))
             after == SelectSeq(rest, LAMBDA y : SortKey(y) > SortKey(x))
         IN  before \o <<x>> \o after

\* results.sort(key=..., reverse=True)
RECURSIVE SortDesc(_)
SortDesc(s) ==
    IF s = <<>> THEN <<>>
    ELSE InsertDesc(SortDesc(SubSeq(s, 1, Len(s) - 1)), s[Len(s)])

----------------------------------------------------------------------------
(* Responses of the handlers: the HTTP status and the body. *)

Ok(b) == [status |-> 200, body |-> b]
HTTPException(code) == [status |-> code, body |-> [detail |-> "error"]]

\* create_template, lines 86-89
CreateResponse(oid, fails) ==
    IF fails THEN HTTPException(500) ELSE Ok([id |-> Str(oid)])

\* list_templates
ListResponse(coll, fails) ==
    IF fails THEN HTTPException(500)
    ELSE Ok(SortDesc([i \in 1..Len(get_documents(coll)) |-> Public(get_documents(coll)[i])]))

\* get_template without "except HTTPException: raise": the 404 becomes a 400
GetResponseWithoutReraise(coll, id, fails) ==
    IF fails \/ ~ValidObjectId(id) THEN HTTPException(400)
    ELSE LET doc == find_one(coll, ObjectId(id))
         IN  IF doc = None THEN HTTPException(400) ELSE Ok(Public(doc[1]))

\* get_template
GetResponse(coll, id, fails) ==
    IF fails \/ ~ValidObjectId(id) THEN HTTPException(400)
    ELSE LET doc == find_one(coll, ObjectId(id))
         IN  IF doc = None THEN HTTPException(404) ELSE Ok(Public(doc[1]))

\* delete_template with the status of the other handlers' except clause
DeleteResponseInternalError(coll, id, fails) ==
    IF fails \/ ~ValidObjectId(id) THEN HTTPException(500)
    ELSE Ok([deleted |-> deleted_count(coll, ObjectId(id)) = 1])

\* delete_template
DeleteResponse(coll, id, fails) ==
    IF fails \/ ~ValidObjectId(id) THEN HTTPException(400)
    ELSE Ok([deleted |-> deleted_count(coll, ObjectId(id)) = 1])

\* the template collection after delete_template
DeleteStore(coll, id, fails) ==
    IF fails \/ ~ValidObjectId(id) THEN coll ELSE delete_one(coll, ObjectId(id))

----------------------------------------------------------------------------
(* upload_image: the base64 data URL. *)

B64Alphabet ==
    <<"A","B","C","D","E","F","G","H","I","J","K","L","M","N","O","P",
      "Q","R","S","T","U","V","W","X","Y","Z","a","b","c","d","e","f",
      "g","h","i","j","k","l","m","n","o","p","q","r","s","t","u","v",
      "w","x","y","z","0","1","2","3","4","5","6","7","8","9","+","/">>

B64Char(v) == B64Alphabet[v + 1]

\* base64.b64encode(content).decode(): three bytes to four characters, the
\* last group padded with "="
RECURSIVE b64encode(_)
b64encode(b) ==
    IF Len(b) = 0 THEN <<>>
    ELSE IF Len(b) = 1 THEN
        <<B64Char(b[1] \div 4), B64Char((b[1] % 4) * 16), "=", "=">>
    ELSE IF Len(b) = 2 THEN
        <<B64Char(b[1] \div 4), B64Char((b[1] % 4) * 16 + b[2] \div 16),
          B64Char((b[2] % 16) * 4), "=">>
    ELSE
        <<B64Char(b[1] \div 4), B64Char((b[1] % 4) * 16 + b[2] \div 16),
          B64Char((b[2] % 16) * 4 + b[3] \div 64), B64Char(b[3] % 64)>>
        \o b64encode(SubSeq(b, 4, Len(b)))

\* the MIME type without its default
MimeWithoutDefault(file) ==
    IF file.content_type = None THEN "None" ELSE file.content_type[1]

\* mime = file.content_type or "image/png"
Mime(file) ==
    IF file.content_type = None \/ file.content_type = Some("")
    THEN "image/png" ELSE file.content_type[1]

\* f"data:{mime};base64,{...}"
DataUrl(file) == <<"data:", Mime(file), ";base64,">> \o b64encode(file.content)

\* payload = {"name": ..., "data_url": ..., "created_at": datetime.utcnow()}
UploadPayload(file, now) ==
    [name |-> file.filename, data_url |-> DataUrl(file), created_at |-> Some(now)]

\* upload_image, lines 142-145
UploadResponse(file, oid, fails) ==
    IF fails THEN HTTPException(500)
    ELSE Ok([id |-> Str(oid), name |-> file.filename, data_url |-> DataUrl(file)])

----------------------------------------------------------------------------
(* Requests. *)

\* JSON bodies of POST /api/templates: the second one supplies its own timestamps
Bodies ==
    {[name |-> "Badge1", data |-> [w |-> 100]],
     [name |-> "Badge2", thumbnail |-> Some("data:image/png;base64,AA=="),
      created_at |-> Some(7), updated_at |-> Some(9)]}

\* a template written to the collection before the service stamped updated_at
LegacyDoc == [_id |-> FirstOid, name |-> "Legacy", data |-> EmptyDict]

\* path parameters of GET and DELETE /api/templates/{id}: every identifier the
\* store can issue, one in upper case, one with a character that is no
\* hexadecimal digit, one that is too long
IdInputs ==
    {Str(o) : o \in FirstOid..(FirstOid + MaxDocs - 1)}
    \cup {Upper(Str(FirstOid))}
    \cup {[i \in 1..HexLen |-> "g"], Append(Str(FirstOid), "0")}

\* file contents: the first bytes of two byte strings
Samples == {<<77, 97, 110, 255, 0>>, <<255, 0, 62, 1, 128>>}
Contents == {SubSeq(b, 1, n) : b \in Samples, n \in 0..MaxBytes}

\* multipart files of POST /api/uploads
Files ==
    [filename : {"photo.jpg"},
     content_type : {None, Some(""), Some("image/jpeg")},
     content : Contents]

NoRequest == [op |-> "none", arg |-> None, failed |-> FALSE, pre |-> <<>>,
              status |-> 0, body |-> EmptyDict]

Completed(o, a, f, before, resp) ==
    [op |-> o, arg |-> a, failed |-> f, pre |-> before,
     status |-> resp.status, body |-> resp.body]

----------------------------------------------------------------------------
(* The state machine. *)

Init ==
    /\ store \in {<<>>, <<LegacyDoc>>}
    /\ uploads = <<>>
    /\ nextOid = FirstOid + Len(store)
    /\ clock = 1
    /\ pc = [p \in Workers |-> "idle"]
    /\ req = [p \in Workers |-> None]
    /\ payload = [p \in Workers |-> None]
    /\ last = NoRequest
    /\ created = EmptyDict
    /\ deleted = {}

InFlight == Cardinality({p \in Workers : pc[p] # "idle"})

\* time passes between any two steps
Tick ==
    /\ clock + 1 \in Instants
    /\ clock' = clock + 1
    /\ UNCHANGED <<store, uploads, nextOid, pc, req, payload, last, created, deleted>>

\* create_template, lines 81-84, on the first idle thread of the pool
CreateBegin(p, body) ==
    /\ pc[p] = "idle"
    /\ \A q \in Workers : q < p => pc[q] # "idle"
    /\ (nextOid - FirstOid) + InFlight < MaxDocs
    /\ req' = [req EXCEPT ![p] = Some(Template(body))]
    /\ payload' = [payload EXCEPT ![p] = Some(StampCreated(Template(body), clock))]
    /\ pc' = [pc EXCEPT ![p] = "line85"]
    /\ UNCHANGED <<store, uploads, nextOid, clock, last, created, deleted>>

\* create_template, line 85
CreateStampUpdated(p) ==
    /\ pc[p] = "line85"
    /\ payload' = [payload EXCEPT ![p] = Some(StampUpdated(payload[p][1], clock))]
    /\ pc' = [pc EXCEPT ![p] = "line86"]
    /\ UNCHANGED <<store, uploads, nextOid, clock, req, last, created, deleted>>

\* create_template inserting its payload twice
CreateInsertTwice(p, fails) ==
    /\ pc[p] = "line86"
    /\ store' = IF fails THEN store
                ELSE create_document(create_document(store, payload[p][1], nextOid),
                                     payload[p][1], nextOid + 1)
    /\ nextOid' = IF fails THEN nextOid ELSE nextOid + 2
    /\ last' = Completed("create", req[p][1], fails, store, CreateResponse(nextOid, fails))
    /\ created' = IF fails THEN created
                  ELSE (CreateResponse(nextOid, fails).body.id :> req[p][1]) @@ created
    /\ pc' = [pc EXCEPT ![p] = "idle"]
    /\ req' = [req EXCEPT ![p] = None]
    /\ payload' = [payload EXCEPT ![p] = None]
    /\ UNCHANGED <<uploads, clock, deleted>>

\* create_template, lines 86-89
CreateInsert(p, fails) ==
    /\ pc[p] = "line86"
    /\ store' = IF fails THEN store ELSE create_document(store, payload[p][1], nextOid)
    /\ nextOid' = IF fails THEN nextOid ELSE nextOid + 1
    /\ last' = Completed("create", req[p][1], fails, store, CreateResponse(nextOid, fails))
    /\ created' = IF fails THEN created
                  ELSE (CreateResponse(nextOid, fails).body.id :> req[p][1]) @@ created
    /\ pc' = [pc EXCEPT ![p] = "idle"]
    /\ req' = [req EXCEPT ![p] = None]
    /\ payload' = [payload EXCEPT ![p] = None]
    /\ UNCHANGED <<uploads, clock, deleted>>

\* list_templates
List(fails) ==
    /\ last' = Completed("list", None, fails, store, ListResponse(store, fails))
    /\ UNCHANGED <<store, uploads, nextOid, clock, pc, req, payload, created, deleted>>

\* get_template
Get(id, fails) ==
    /\ last' = Completed("get", id, fails, store, GetResponse(store, id, fails))
    /\ UNCHANGED <<store, uploads, nextOid, clock, pc, req, payload, created, deleted>>

\* delete_template
Delete(id, fails) ==
    /\ store' = DeleteStore(store, id, fails)
    /\ last' = Completed("delete", id, fails, store, DeleteResponse(store, id, fails))
    /\ deleted' = IF Len(store') < Len(store) THEN deleted \cup {ObjectId(id)} ELSE deleted
    /\ UNCHANGED <<uploads, nextOid, clock, pc, req, payload, created>>

\* upload_image
Upload(file, fails) ==
    /\ Len(uploads) < MaxUploads
    /\ uploads' = IF fails THEN uploads
                  ELSE create_document(uploads, UploadPayload(file, clock), nextOid)
    /\ nextOid' = IF fails THEN nextOid ELSE nextOid + 1
    /\ last' = Completed("upload", file, fails, uploads, UploadResponse(file, nextOid, fails))
    /\ UNCHANGED <<store, clock, pc, req, payload, created, deleted>>

Next ==
    \/ Tick
    \/ \E p \in Workers, body \in Bodies : CreateBegin(p, body)
    \/ \E p \in Workers : CreateStampUpdated(p)
    \/ \E p \in Workers, fails \in BOOLEAN : CreateInsert(p, fails)
    \/ \E fails \in BOOLEAN : List(fails)
    \/ \E id \in IdInputs, fails \in BOOLEAN : Get(id, fails)
    \/ \E id \in IdInputs, fails \in BOOLEAN : Delete(id, fails)

Spec == Init /\ [][Next]_vars

\* the upload endpoint on its own: the upload collection is related to no template
NextUpload ==
    \/ Tick
    \/ \E file \in Files, fails \in BOOLEAN : Upload(file, fails)

SpecUpload == Init /\ [][NextUpload]_vars

----------------------------------------------------------------------------
(* Properties. *)

Ids(coll) == {coll[i]._id : i \in 1..Len(coll)}
Absent(coll, oid) == \A i \in 1..Len(coll) : coll[i]._id # oid

\* C1: a get of an id that a create returned, with no delete of that id in
\* between and the store answering, succeeds with that id and with the name,
\* thumbnail and data of the created Template.
C1_CreateThenGet ==
    (/\ last.op = "get"
     /\ ~last.failed
     /\ last.arg \in DOMAIN created
     /\ ObjectId(last.arg) \notin deleted)
    => /\ last.status = 200
       /\ last.body.id = last.arg
       /\ last.body.name = created[last.arg].name
       /\ last.body.thumbnail = created[last.arg].thumbnail
       /\ last.body.data = created[last.arg].data

\* a get of the second of two created templates, the one carrying a thumbnail
C1_Witness ==
    /\ last.op = "get"
    /\ last.status = 200
    /\ last.arg \in DOMAIN created
    /\ created[last.arg].thumbnail # None
    /\ Len(store) >= 2
    /\ store[1]._id # ObjectId(last.arg)

\* C2: a request during which the store fails ends in 500; 400 is returned
\* only for a malformed identifier and 404 only for an absent template.
C2_StoreFailureIs500 ==
    /\ (last.failed /\ (last.op \in {"get", "delete"} => ValidObjectId(last.arg)))
       => last.status = 500
    /\ last.status = 400 => ~ValidObjectId(last.arg)
    /\ last.status = 404 => Absent(last.pre, ObjectId(last.arg))

\* C3: every record that create_template stored has created_at = updated_at.
C3_SameInstant ==
    \A i \in 1..Len(store) :
        Str(store[i]._id) \in DOMAIN created
        => /\ store[i].created_at # None
           /\ store[i].created_at = store[i].updated_at

\* the ordering key the list is claimed to follow: updated_at, a missing or
\* null one counting as the earliest possible time
C4_Key(r) ==
    IF "updated_at" \in DOMAIN r /\ r.updated_at # None THEN r.updated_at[1] ELSE DatetimeMin

\* C4: the entries of a list response are in descending order of updated_at,
\* a missing updated_at counting as the earliest possible time; an entry with
\* a later updated_at comes before one with an earlier.
C4_ListDescending ==
    (last.op = "list" /\ last.status = 200)
    => /\ \A i \in 1..(Len(last.body) - 1) : C4_Key(last.body[i]) >= C4_Key(last.body[i + 1])
       /\ \A i, j \in 1..Len(last.body) :
            C4_Key(last.body[i]) > C4_Key(last.body[j]) => i < j
       /\ \A i, j \in 1..Len(last.body) :
            ("updated_at" \notin DOMAIN last.body[i] /\ "updated_at" \in DOMAIN last.body[j])
            => j < i

\* a list that puts a newer template before the older template without
\* updated_at that the store returned first
C4_Witness ==
    /\ last.op = "list"
    /\ last.status = 200
    /\ Len(last.body) >= 2
    /\ "updated_at" \notin DOMAIN last.pre[1]
    /\ "updated_at" \in DOMAIN last.body[1]
    /\ "updated_at" \notin DOMAIN last.body[Len(last.body)]

\* C5: a get of a well-formed identifier that matches no stored template,
\* the store answering, returns 404 and leaves the store as it was.
C5_AbsentIsNotFound ==
    (/\ last.op = "get"
     /\ ~last.failed
     /\ ValidObjectId(last.arg)
     /\ Absent(last.pre, ObjectId(last.arg)))
    => /\ last.status = 404
       /\ store = last.pre

\* a get of a template that was created and has since been deleted
C5_Witness ==
    /\ last.op = "get"
    /\ last.status = 404
    /\ ObjectId(last.arg) \in deleted
    /\ last.arg \in DOMAIN created

\* C6: a get or a delete of an identifier that does not parse returns 400,
\* whether or not the store answers, and leaves the store as it was.
C6_MalformedIsBadRequest ==
    (last.op \in {"get", "delete"} /\ ~ValidObjectId(last.arg))
    => /\ last.status = 400
       /\ store = last.pre

\* a delete of a malformed identifier while the store holds templates
C6_Witness ==
    /\ last.op = "delete"
    /\ ~ValidObjectId(last.arg)
    /\ last.status = 400
    /\ Len(store) >= 1

\* C7: a delete of a well-formed identifier, the store answering, succeeds;
\* it reports deleted exactly when a template with that id existed, removes
\* that template and no other, changes nothing when none existed, and a
\* second delete of the same id would report deleted = false.
C7_DeleteAtMostOne ==
    (last.op = "delete" /\ ~last.failed /\ ValidObjectId(last.arg))
    => LET oid == ObjectId(last.arg)
           Other(d) == d._id # oid
       IN  /\ last.status = 200
           /\ last.body.deleted = ~Absent(last.pre, oid)
           /\ Len(store) = Len(last.pre) - (IF last.body.deleted THEN 1 ELSE 0)
           /\ ~last.body.deleted => store = last.pre
           /\ SelectSeq(store, Other) = SelectSeq(last.pre, Other)
           /\ Absent(store, oid)
           /\ DeleteResponse(store, last.arg, FALSE).body.deleted = FALSE

\* a delete that removed one template and left another
C7_Witness ==
    /\ last.op = "delete"
    /\ last.status = 200
    /\ last.body.deleted
    /\ Len(last.pre) >= 2
    /\ Len(store) >= 1

\* C9: a list response has exactly one entry for every template in the
\* store, each with the string form of the template's identifier as id and
\* with no _id; list and get leave the store as it was.
C9_ListIsWholeStore ==
    /\ (last.op = "list" /\ last.status = 200)
       => /\ Len(last.body) = Len(last.pre)
          /\ \A i \in 1..Len(last.pre) :
               Cardinality({j \in 1..Len(last.body) :
                              last.body[j].id = Str(last.pre[i]._id)}) = 1
          /\ \A j \in 1..Len(last.body) :
               /\ "_id" \notin DOMAIN last.body[j]
               /\ \E i \in 1..Len(last.pre) :
                    /\ last.body[j].id = Str(last.pre[i]._id)
                    /\ DOMAIN last.body[j] = (DOMAIN last.pre[i] \ {"_id"}) \cup {"id"}
                    /\ \A k \in DOMAIN last.pre[i] \ {"_id"} : last.body[j][k] = last.pre[i][k]
    /\ last.op \in {"list", "get"} => store = last.pre

\* a list of a store that holds two templates
C9_Witness ==
    /\ last.op = "list"
    /\ last.status = 200
    /\ Len(last.body) >= 2
    /\ last.body[1].id # last.body[2].id

\* C10: whatever the interleaving, the identifiers in the store are pairwise
\* distinct; a successful create appends exactly one record, under an
\* identifier that no record held and none was deleted under, and leaves the
\* records before it as they were; every created template is in the store,
\* once and with the content it was created with, unless it was deleted; a
\* delete removes no record of another identifier.
C10_NoLostInsert ==
    /\ \A i, j \in 1..Len(store) : store[i]._id = store[j]._id => i = j
    /\ (last.op = "create" /\ last.status = 200)
       => /\ Len(store) = Len(last.pre) + 1
          /\ SubSeq(store, 1, Len(last.pre)) = last.pre
          /\ store[Len(store)]._id = ObjectId(last.body.id)
          /\ Absent(last.pre, ObjectId(last.body.id))
          /\ ObjectId(last.body.id) \notin deleted
    /\ \A id \in DOMAIN created :
          \/ ObjectId(id) \in deleted
          \/ \E i \in 1..Len(store) :
               /\ store[i]._id = ObjectId(id)
               /\ store[i].name = created[id].name
               /\ store[i].thumbnail = created[id].thumbnail
               /\ store[i].data = created[id].data
    /\ last.op = "delete"
       => \A i \in 1..Len(last.pre) :
            (~ValidObjectId(last.arg) \/ last.pre[i]._id # ObjectId(last.arg))
            => \E j \in 1..Len(store) : store[j] = last.pre[i]

\* two creates that overlapped, the one that began later inserted first,
\* both stored
C10_Witness ==
    \E i, j \in 1..Len(store) :
        /\ i < j
        /\ Str(store[i]._id) \in DOMAIN created
        /\ Str(store[j]._id) \in DOMAIN created
        /\ store[i].created_at[1] > store[j].created_at[1]

----------------------------------------------------------------------------
(* The upload's data URL. *)

B64Index(c) == CHOOSE v \in 0..63 : B64Alphabet[v + 1] = c

\* the bytes a base64 text stands for
RECURSIVE b64decode(_)
b64decode(t) ==
    IF Len(t) < 4 THEN <<>>
    ELSE LET a == B64Index(t[1])
             b == B64Index(t[2])
             rest == b64decode(SubSeq(t, 5, Len(t)))
         IN  IF t[3] = "=" THEN <<a * 4 + b \div 16>>
             ELSE LET c == B64Index(t[3])
                  IN  IF t[4] = "=" THEN <<a * 4 + b \div 16, (b % 16) * 16 + c \div 4>>
                      ELSE <<a * 4 + b \div 16, (b % 16) * 16 + c \div 4,
                             (c % 4) * 64 + B64Index(t[4])>> \o rest

\* C8: a successful upload returns "data:<m>;base64,<payload>" where m is the
\* file's MIME type, image/png when it has none, and the payload decodes to
\* the file's bytes; the name returned is the filename; the record stored
\* holds the same data_url under the id returned.
C8_DataUrlRoundTrip ==
    (last.op = "upload" /\ last.status = 200)
    => LET f == last.arg
           u == last.body.data_url
           rec == uploads[Len(uploads)]
       IN  /\ Len(u) >= 3
           /\ u[1] = "data:"
           /\ u[2] = (IF f.content_type \in {None, Some("")}
                      THEN "image/png" ELSE f.content_type[1])
           /\ u[3] = ";base64,"
           /\ Len(u) = 3 + 4 * ((Len(f.content) + 2) \div 3)
           /\ b64decode(SubSeq(u, 4, Len(u))) = f.content
           /\ last.body.name = f.filename
           /\ rec.data_url = u
           /\ rec.name = f.filename
           /\ Str(rec._id) = last.body.id

\* an upload of three bytes that carries no MIME type
C8_Witness ==
    /\ last.op = "upload"
    /\ last.status = 200
    /\ last.arg.content_type = None
    /\ Len(last.arg.content) = 3
    /\ Len(uploads) >= 1

====
